---- MODULE Spec2Model ----
(***************************************************************************)
(* The /summary handler of earbug-gchat: Server.summary in its two         *)
(* variants, the single-closure pipeline of server/server.go ("single")    *)
(* and the three-closure pipeline of unnamed/part_000 ("staged").          *)
(*                                                                         *)
(* Collaborators (request body stream, storage bucket, zstd decoder,       *)
(* protobuf decoder, wall clock, chat webhook, ResponseWriter, logger) are *)
(* modelled at the call boundary: each call is recorded, and each result   *)
(* that the collaborator decides is an input of the step that calls it.    *)
(***************************************************************************)
EXTENDS Integers, Sequences, FiniteSets, TLC

VARIABLES variant, server, request, loc, io

vars == <<variant, server, request, loc, io>>

----------------------------------------------------------------------------
(* Bounds of the model. *)

\* largest number of playback events in a decoded store
MaxEvents == 3
\* largest number of playback events in a store, concurrent specification
ConcMaxEvents == 1
\* largest number of playback events in a store, paired specification
PairMaxEvents == 1

----------------------------------------------------------------------------
(* Values. *)

Nil == "nil"

\* the error details a collaborator may return
ErrDetails == {"e1", "e2"}

Outcomes == {Nil} \cup ErrDetails

Variants == {"single", "staged"}

Methods == {"POST", "GET"}

Users == {"alice", "bob"}

Tracks == {"A", "B"}

----------------------------------------------------------------------------
(* Strings as sequences of one-character strings, where the code indexes   *)
(* or compares them byte-wise.                                             *)

Digits == <<"0", "1", "2", "3", "4", "5", "6", "7", "8", "9">>

\* byte value of the characters that occur in timestamps
Ord(c) ==
    CASE c = "-" -> 45
      [] c = "0" -> 48 [] c = "1" -> 49 [] c = "2" -> 50 [] c = "3" -> 51
      [] c = "4" -> 52 [] c = "5" -> 53 [] c = "6" -> 54 [] c = "7" -> 55
      [] c = "8" -> 56 [] c = "9" -> 57
      [] c = ":" -> 58
      [] c = "T" -> 84
      [] c = "x" -> 120

RECURSIVE Join(_)
\* the Go string made of the characters cs
Join(cs) == IF cs = <<>> THEN "" ELSE Head(cs) \o Join(Tail(cs))

RECURSIVE CompareAt(_, _, _)
CompareAt(a, b, i) ==
    IF i > Len(a) /\ i > Len(b) THEN 0
    ELSE IF i > Len(a) THEN -1
    ELSE IF i > Len(b) THEN 1
    ELSE IF Ord(a[i]) < Ord(b[i]) THEN -1
    ELSE IF Ord(a[i]) > Ord(b[i]) THEN 1
    ELSE CompareAt(a, b, i + 1)

\* strings.Compare: lexicographic, byte-wise; -1, 0 or +1
Compare(a, b) == CompareAt(a, b, 1)

RECURSIVE Itoa(_)
\* %v of a non-negative int
Itoa(n) == IF n < 10 THEN Digits[n + 1] ELSE Itoa(n \div 10) \o Digits[(n % 10) + 1]

----------------------------------------------------------------------------
(* Wall clock.  An instant is a civil date (the time of day does not       *)
(* change the date 24 hours earlier, and the zone has no clock changes).   *)

Leap(y) == (y % 4 = 0 /\ y % 100 # 0) \/ y % 400 = 0

DaysIn(y, m) ==
    IF m = 2 THEN (IF Leap(y) THEN 29 ELSE 28)
    ELSE IF m \in {4, 6, 9, 11} THEN 30 ELSE 31

\* Time.Add(time.Duration(-24) * time.Hour)
AddMinus24h(t) ==
    IF t.day > 1 THEN [t EXCEPT !.day = @ - 1]
    ELSE IF t.month > 1
         THEN [t EXCEPT !.month = @ - 1, !.day = DaysIn(t.year, t.month - 1)]
         ELSE [year |-> t.year - 1, month |-> 12, day |-> 31]

\* the decimal digits of n, zero-padded to two and to four places
Pad2(n) == <<Digits[(n \div 10) + 1], Digits[(n % 10) + 1]>>

Pad4(n) == Pad2(n \div 100) \o Pad2(n % 100)

\* Time.Format("2006-01-02")
FormatDate(t) == Pad4(t.year) \o <<"-">> \o Pad2(t.month) \o <<"-">> \o Pad2(t.day)

\* the zero time.Time
NoTime == [year |-> 1, month |-> 1, day |-> 1]

\* the instants time.Now() may return
Nows ==
    { [year |-> 2024, month |-> 3, day |-> 2],
      [year |-> 2024, month |-> 3, day |-> 1],
      [year |-> 2024, month |-> 2, day |-> 29],
      [year |-> 2024, month |-> 1, day |-> 1] }

----------------------------------------------------------------------------
(* Playback stores: earbugv3.Store.Playbacks, a map from timestamp to a    *)
(* playback carrying a track id.                                           *)

TsFeb28 == <<"2","0","2","4","-","0","2","-","2","8","T","1","0",":","0","0",":","0","0">>

TsMar01a == <<"2","0","2","4","-","0","3","-","0","1","T","1","0",":","0","0",":","0","0">>

TsMar01b == <<"2","0","2","4","-","0","3","-","0","1","T","1","1",":","0","0",":","0","0">>

TsMar02 == <<"2","0","2","4","-","0","3","-","0","2","T","0","9",":","0","0",":","0","0">>

\* a key shorter than ten characters
TsShort == <<"2","0","2","4","-","0","3">>

Timestamps == {TsFeb28, TsMar01a, TsMar01b, TsMar02, TsShort}

\* every store with at most n playbacks, keyed by timestamps of tss
StoresOver(tss, tracks, n) ==
    UNION { [ks -> tracks] : ks \in { k \in SUBSET tss : Cardinality(k) <= n } }

Stores == StoresOver(Timestamps, Tracks, MaxEvents)

EmptyStore == [ts \in {} |-> "A"]

----------------------------------------------------------------------------
(* Request bodies as JSON token sequences, and encoding/json.Unmarshal     *)
(* into userReq{User string `json:"user"`}.                                *)

LB == [t |-> "{", v |-> ""]

RB == [t |-> "}", v |-> ""]

COLON == [t |-> ":", v |-> ""]

COMMA == [t |-> ",", v |-> ""]

NULL == [t |-> "null", v |-> ""]

NUM == [t |-> "num", v |-> "5"]

S(v) == [t |-> "str", v |-> v]

\* {"user": "<x>"}
UserBody(x) == <<LB, S("user"), COLON, S(x), RB>>

Bodies ==
    { UserBody(x) : x \in Users } \cup
    { <<>>,                                           \* empty body
      <<LB>>,                                         \* {
      <<LB, S("user"), S("alice"), RB>>,              \* {"user" "alice"}
      <<LB, RB>>,                                     \* {}
      UserBody(""),                                   \* {"user": ""}
      <<LB, S("other"), COLON, S("alice"), RB>>,      \* {"other": "alice"}
      <<LB, S("user"), COLON, NUM, RB>>,              \* {"user": 5}
      <<LB, S("user"), COLON, NULL, RB>>,             \* {"user": null}
      <<NULL>>,                                       \* null
      <<S("alice")>>,                                 \* "alice"
      <<LB, S("USER"), COLON, S("bob"), RB>>,         \* {"USER": "bob"}
      <<LB, S("user"), COLON, S("alice"), COMMA, S("user"), COLON, S("bob"), RB>> }

Scalar(tok) == tok.t \in {"str", "num", "null"}

\* the members between the braces: key : value { , key : value }
MembersValid(m) ==
    \/ m = <<>>
    \/ /\ Len(m) % 4 = 3
       /\ \A k \in 1..Len(m) :
            CASE k % 4 = 1 -> m[k].t = "str"
              [] k % 4 = 2 -> m[k].t = ":"
              [] k % 4 = 3 -> Scalar(m[k])
              [] OTHER     -> m[k].t = ","

\* json.Valid, for scalars and flat objects
JsonValid(b) ==
    \/ Len(b) = 1 /\ Scalar(b[1])
    \/ /\ Len(b) >= 2
       /\ b[1].t = "{"
       /\ b[Len(b)].t = "}"
       /\ MembersValid(SubSeq(b, 2, Len(b) - 1))

\* strings.ToLower over the keys that occur
Lower(k) == CASE k = "USER" -> "user" [] k = "User" -> "user" [] OTHER -> k

RECURSIVE DecodeMembers(_, _, _)
\* the object's members from position k on, decoded into acc = [err, user]
DecodeMembers(m, k, acc) ==
    IF k > Len(m) THEN acc
    ELSE LET key == m[k].v
             val == m[k + 2]
             nxt == IF Lower(key) # "user" THEN acc
                    ELSE IF val.t = "str" THEN [acc EXCEPT !.user = val.v]
                    ELSE IF val.t = "null" THEN acc
                    ELSE IF acc.err = Nil THEN [acc EXCEPT !.err = "json: cannot unmarshal"]
                    ELSE acc
         IN  DecodeMembers(m, k + 4, nxt)

\* json.Unmarshal(b, &user): the error and the resulting userReq.User
JsonUnmarshal(b) ==
    LET zero == [err |-> Nil, user |-> ""]
    IN  IF ~JsonValid(b) THEN [err |-> "json: syntax error", user |-> ""]
        ELSE IF b[1].t = "null" THEN zero
        ELSE IF b[1].t # "{" THEN [err |-> "json: cannot unmarshal", user |-> ""]
        ELSE DecodeMembers(SubSeq(b, 2, Len(b) - 1), 1, zero)

----------------------------------------------------------------------------
(* State.                                                                  *)
(*   variant    which build of the handler serves each request             *)
(*   server     the Server value after Init                                *)
(*   request    each request's method and body, and what reading the body  *)
(*              stream returns                                             *)
(*   loc        the locals of each run of summary, and where it stands     *)
(*   io         what each run has done to its collaborators: the calls in  *)
(*              order with their results, the state of the two readers,    *)
(*              the responses written and the log entries                  *)

\* Server after Register and Init
ServerInit == [bucket |-> "earbug-bucket", endpoint |-> "webhook", log |-> "earbug-gchat"]

Requests == [method : Methods, body : Bodies, readErr : Outcomes]

LocInit ==
    [ pc |-> "method", b |-> <<>>, user |-> "", key |-> "", defers |-> <<>>,
      data |-> EmptyStore, now |-> NoTime, tsPrefix |-> <<>>, remaining |-> {},
      playedBefore |-> {}, playedYesterday |-> {}, yesterdayPlays |-> 0,
      ids |-> {}, yesterdayNewTracks |-> 0, chatMsg |-> "",
      msg |-> "", code |-> 0, err |-> Nil ]

IoInit ==
    [ calls |-> <<>>, orState |-> "none", zrState |-> "none",
      responses |-> <<>>, logged |-> <<>> ]

Reqs == DOMAIN loc

\* HTTP status codes of net/http
StatusOK == 200

StatusBadRequest == 400

StatusMethodNotAllowed == 405

StatusInternalServerError == 500

----------------------------------------------------------------------------
(* Building blocks of the handler.                                         *)

\* a call on a collaborator: what was called, with what, and the error returned
Call(op, arg, err) == [op |-> op, arg |-> arg, err |-> err]

\* ObjectKey with the suffix cut short
ObjectKeyShortSuffix(user) == user \o ".pb"

\* key := user + ".pb.zstd"
ObjectKey(user) == user \o ".pb.zstd"

\* ChatMsg with the track count and the new-track count exchanged
ChatMsgSwapped(tsPrefix, plays, tracks, new) ==
    Join(tsPrefix) \o " | " \o Itoa(plays) \o " plays | " \o Itoa(new)
        \o " tracks (" \o Itoa(tracks) \o " new)"

\* fmt.Sprintf("%s | %v plays | %v tracks (%v new)", ...)
ChatMsg(tsPrefix, plays, tracks, new) ==
    Join(tsPrefix) \o " | " \o Itoa(plays) \o " plays | " \o Itoa(tracks)
        \o " tracks (" \o Itoa(new) \o " new)"

\* the deferred Close calls of the returning closure
RunDefers(defers, i) ==
    [ i EXCEPT !.orState = IF \E k \in 1..Len(defers) : defers[k] = "or"
                           THEN "closed" ELSE @,
               !.zrState = IF \E k \in 1..Len(defers) : defers[k] = "zr"
                           THEN "closed" ELSE @ ]

\* WriteError answering with the error's own text
WriteErrorDetail(i, msg, code, err) ==
    [ i EXCEPT !.responses = Append(@, [status |-> code, body |-> err]),
               !.logged = Append(@, [level |-> "error", err |-> err, msg |-> msg]) ]

\* http.Error(rw, msg, code); log.Error(err, msg).  The response is recorded
\* as the status and the text handed to http.Error, which sends the text as
\* one line.
WriteError(i, msg, code, err) ==
    [ i EXCEPT !.responses = Append(@, [status |-> code, body |-> msg]),
               !.logged = Append(@, [level |-> "error", err |-> err, msg |-> msg]) ]

\* rw.Write([]byte(msg)), which sends status 200; log.Info("posted summary")
WriteOk(i, msg) ==
    [ i EXCEPT !.responses = Append(@, [status |-> StatusOK, body |-> msg]),
               !.logged = Append(@, [level |-> "info", err |-> Nil, msg |-> "posted summary"]) ]

Set(r, l, i) ==
    /\ loc' = [loc EXCEPT ![r] = l]
    /\ io' = [io EXCEPT ![r] = i]
    /\ UNCHANGED <<variant, server, request>>

\* the closure returns (msg, code, err) with err != nil: its defers run, the
\* handler writes the error response, logs and returns
Fail(r, l, i, msg, code, err) ==
    Set(r,
        [l EXCEPT !.msg = msg, !.code = code, !.err = err, !.defers = <<>>, !.pc = "failed"],
        WriteError(RunDefers(l.defers, i), msg, code, err))

\* Panic leaving the deferred calls undone
PanicWithoutDefers(r, l, i) ==
    Set(r, [l EXCEPT !.defers = <<>>, !.pc = "panicked"], i)

\* a run-time panic unwinds the closure (its defers run) and the handler; the
\* HTTP server recovers it and drops the connection without a response
Panic(r, l, i) ==
    Set(r, [l EXCEPT !.defers = <<>>, !.pc = "panicked"], RunDefers(l.defers, i))

----------------------------------------------------------------------------
(* The steps of summary, for request r.                                    *)

\* CheckMethod reading the body before it rejects the method
CheckMethodAfterRead(r) ==
    /\ loc[r].pc = "method"
    /\ IF request[r].method # "POST"
       THEN Fail(r, loc[r],
                 [io[r] EXCEPT !.calls = Append(@, Call("Body.Read", "", request[r].readErr))],
                 "invalid method", StatusMethodNotAllowed, "POST only")
       ELSE Set(r, [loc[r] EXCEPT !.pc = "readBody"], io[r])

\* if r.Method != http.MethodPost
CheckMethod(r) ==
    /\ loc[r].pc = "method"
    /\ IF request[r].method # "POST"
       THEN Fail(r, loc[r], io[r], "invalid method", StatusMethodNotAllowed, "POST only")
       ELSE Set(r, [loc[r] EXCEPT !.pc = "readBody"], io[r])

\* b, err := io.ReadAll(r.Body)
ReadBody(r) ==
    /\ loc[r].pc = "readBody"
    /\ LET err == request[r].readErr
           i == [io[r] EXCEPT !.calls = Append(@, Call("Body.Read", "", err))]
       IN  IF err # Nil
           THEN Fail(r, loc[r], i, "read body", StatusBadRequest, err)
           ELSE Set(r, [loc[r] EXCEPT !.b = request[r].body, !.pc = "unmarshalBody"], i)

\* UnmarshalBody keeping the user in the logger of the shared Server
UnmarshalBodySharedLog(r) ==
    /\ loc[r].pc = "unmarshalBody"
    /\ LET res == JsonUnmarshal(loc[r].b)
           err == IF res.err = Nil /\ res.user = "" THEN "no user provided" ELSE res.err
       IN  IF err # Nil
           THEN Fail(r, loc[r], io[r], "unmarshal body", StatusBadRequest, err)
           ELSE /\ loc' = [loc EXCEPT ![r] = [@ EXCEPT !.user = res.user, !.pc = "newReader"]]
                /\ server' = [server EXCEPT !.log = res.user]
                /\ UNCHANGED <<variant, request, io>>

\* UnmarshalBody without the empty-user check
UnmarshalBodyAnyUser(r) ==
    /\ loc[r].pc = "unmarshalBody"
    /\ LET res == JsonUnmarshal(loc[r].b)
       IN  IF res.err # Nil
           THEN Fail(r, loc[r], io[r], "unmarshal body", StatusBadRequest, res.err)
           ELSE Set(r, [loc[r] EXCEPT !.user = res.user, !.pc = "newReader"], io[r])

\* json.Unmarshal(b, &user), the empty-user check, and in the staged variant
\* the return of the extract-user closure
UnmarshalBody(r) ==
    /\ loc[r].pc = "unmarshalBody"
    /\ LET res == JsonUnmarshal(loc[r].b)
           err == IF res.err = Nil /\ res.user = "" THEN "no user provided" ELSE res.err
       IN  IF err # Nil
           THEN Fail(r, loc[r], io[r], "unmarshal body", StatusBadRequest, err)
           ELSE Set(r, [loc[r] EXCEPT !.user = res.user, !.pc = "newReader"], io[r])

\* NewReader trying a second time when the first try fails
NewReaderRetry(r) ==
    /\ loc[r].pc = "newReader"
    /\ \E err \in Outcomes :
         LET key == ObjectKey(loc[r].user)
             l == [loc[r] EXCEPT !.key = key]
             i == [io[r] EXCEPT !.calls = Append(@, Call("NewReader", key, err))]
         IN  IF err # Nil /\ io[r].calls[Len(io[r].calls)].op # "NewReader"
             THEN Set(r, l, i)
             ELSE IF err # Nil
             THEN Fail(r, l, i, "create object reader", StatusInternalServerError, err)
             ELSE Set(r, [l EXCEPT !.defers = Append(@, "or"), !.pc = "zstdNewReader"],
                         [i EXCEPT !.orState = "open"])

\* key := user + ".pb.zstd"; obj := s.bkt.Object(key); or, err := obj.NewReader(ctx)
NewReader(r) ==
    /\ loc[r].pc = "newReader"
    /\ \E err \in Outcomes :
         LET key == ObjectKey(loc[r].user)
             l == [loc[r] EXCEPT !.key = key]
             i == [io[r] EXCEPT !.calls = Append(@, Call("NewReader", key, err))]
         IN  IF err # Nil
             THEN Fail(r, l, i, "create object reader", StatusInternalServerError, err)
             ELSE Set(r, [l EXCEPT !.defers = Append(@, "or"), !.pc = "zstdNewReader"],
                         [i EXCEPT !.orState = "open"])

\* ZstdNewReader reporting its failure under the label of the step before it
ZstdNewReaderWrongLabel(r) ==
    /\ loc[r].pc = "zstdNewReader"
    /\ \E err \in Outcomes :
         LET i == [io[r] EXCEPT !.calls = Append(@, Call("zstd.NewReader", "", err))]
         IN  IF err # Nil
             THEN Fail(r, loc[r], i, "create object reader", StatusInternalServerError, err)
             ELSE Set(r, [loc[r] EXCEPT !.defers = Append(@, "zr"), !.pc = "readAll"],
                         [i EXCEPT !.zrState = "open"])

\* zr, err := zstd.NewReader(or)
ZstdNewReader(r) ==
    /\ loc[r].pc = "zstdNewReader"
    /\ \E err \in Outcomes :
         LET i == [io[r] EXCEPT !.calls = Append(@, Call("zstd.NewReader", "", err))]
         IN  IF err # Nil
             THEN Fail(r, loc[r], i, "create zstd reader", StatusInternalServerError, err)
             ELSE Set(r, [loc[r] EXCEPT !.defers = Append(@, "zr"), !.pc = "readAll"],
                         [i EXCEPT !.zrState = "open"])

\* ReadObject without the check of err
ReadObjectUnchecked(r) ==
    /\ loc[r].pc = "readAll"
    /\ \E err \in Outcomes :
         Set(r, [loc[r] EXCEPT !.pc = "protoUnmarshal"],
                [io[r] EXCEPT !.calls = Append(@, Call("ReadAll", "", err))])

\* b, err = io.ReadAll(zr)
ReadObject(r) ==
    /\ loc[r].pc = "readAll"
    /\ \E err \in Outcomes :
         LET i == [io[r] EXCEPT !.calls = Append(@, Call("ReadAll", "", err))]
         IN  IF err # Nil
             THEN Fail(r, loc[r], i, "read object", StatusInternalServerError, err)
             ELSE Set(r, [loc[r] EXCEPT !.pc = "protoUnmarshal"], i)

\* ProtoUnmarshal with the staged variant reporting its failure under the
\* label of the step before it
ProtoUnmarshalStagedLabel(r, stores) ==
    /\ loc[r].pc = "protoUnmarshal"
    /\ \E err \in Outcomes :
         LET i == [io[r] EXCEPT !.calls = Append(@, Call("proto.Unmarshal", "", err))]
         IN  IF err # Nil
             THEN Fail(r, loc[r], i,
                       IF variant[r] = "staged" THEN "read object" ELSE "unmarshal as proto",
                       StatusInternalServerError, err)
             ELSE \E d \in stores :
                    IF variant[r] = "staged"
                    THEN Set(r, [loc[r] EXCEPT !.data = d, !.defers = <<>>, !.pc = "timeNow"],
                                RunDefers(loc[r].defers, i))
                    ELSE Set(r, [loc[r] EXCEPT !.data = d, !.pc = "timeNow"], i)

\* err = proto.Unmarshal(b, &data); in the staged variant the read-data
\* closure then returns, running its defers
ProtoUnmarshal(r, stores) ==
    /\ loc[r].pc = "protoUnmarshal"
    /\ \E err \in Outcomes :
         LET i == [io[r] EXCEPT !.calls = Append(@, Call("proto.Unmarshal", "", err))]
         IN  IF err # Nil
             THEN Fail(r, loc[r], i, "unmarshal as proto", StatusInternalServerError, err)
             ELSE \E d \in stores :
                    IF variant[r] = "staged"
                    THEN Set(r, [loc[r] EXCEPT !.data = d, !.defers = <<>>, !.pc = "timeNow"],
                                RunDefers(loc[r].defers, i))
                    ELSE Set(r, [loc[r] EXCEPT !.data = d, !.pc = "timeNow"], i)

\* TimeNow refusing a store without playbacks
TimeNowRejectEmpty(r, nows) ==
    /\ loc[r].pc = "timeNow"
    /\ \E now \in nows :
         IF DOMAIN loc[r].data = {}
         THEN Fail(r, loc[r], io[r], "no playbacks", StatusInternalServerError, "empty store")
         ELSE Set(r, [loc[r] EXCEPT !.now = now,
                                    !.tsPrefix = FormatDate(AddMinus24h(now)),
                                    !.playedBefore = {}, !.playedYesterday = {},
                                    !.yesterdayPlays = 0,
                                    !.remaining = DOMAIN loc[r].data,
                                    !.pc = "rangePlaybacks"],
                     io[r])

\* the two maps and the counter are created, and
\* tsPrefix := time.Now().Add(time.Duration(-24) * time.Hour).Format("2006-01-02")
TimeNow(r, nows) ==
    /\ loc[r].pc = "timeNow"
    /\ \E now \in nows :
         Set(r, [loc[r] EXCEPT !.now = now,
                               !.tsPrefix = FormatDate(AddMinus24h(now)),
                               !.playedBefore = {}, !.playedYesterday = {},
                               !.yesterdayPlays = 0,
                               !.remaining = DOMAIN loc[r].data,
                               !.pc = "rangePlaybacks"],
                io[r])

\* VisitPlayback keeping, in one pass, only the tracks not yet seen before
VisitPlaybackOnePass(l, ts) ==
    LET cmp == Compare(SubSeq(ts, 1, 10), l.tsPrefix)
        id == l.data[ts]
    IN  IF cmp < 0
        THEN [l EXCEPT !.playedBefore = @ \cup {id}]
        ELSE IF cmp = 0
        THEN [l EXCEPT !.yesterdayPlays = @ + 1,
                       !.playedYesterday = IF id \in l.playedBefore THEN @ ELSE @ \cup {id}]
        ELSE l

\* VisitPlayback comparing the whole key instead of its first ten characters
VisitPlaybackWholeKey(l, ts) ==
    LET cmp == Compare(ts, l.tsPrefix)
        id == l.data[ts]
    IN  IF cmp < 0
        THEN [l EXCEPT !.playedBefore = @ \cup {id}]
        ELSE IF cmp = 0
        THEN [l EXCEPT !.yesterdayPlays = @ + 1, !.playedYesterday = @ \cup {id}]
        ELSE l

\* the locals after the loop body for the playback at ts, which has ten
\* characters or more
VisitPlayback(l, ts) ==
    LET cmp == Compare(SubSeq(ts, 1, 10), l.tsPrefix)
        id == l.data[ts]
    IN  IF cmp < 0
        THEN [l EXCEPT !.playedBefore = @ \cup {id}]
        ELSE IF cmp = 0
        THEN [l EXCEPT !.yesterdayPlays = @ + 1, !.playedYesterday = @ \cup {id}]
        ELSE l

\* one iteration of: for ts, played := range data.Playbacks (any order);
\* ts[:10] panics when ts is shorter than ten characters
RangePlaybacks(r) ==
    /\ loc[r].pc = "rangePlaybacks"
    /\ IF loc[r].remaining = {}
       THEN Set(r, [loc[r] EXCEPT !.yesterdayNewTracks = 0,
                                  !.ids = loc[r].playedYesterday,
                                  !.pc = "rangeNew"],
                   io[r])
       ELSE \E ts \in loc[r].remaining :
              IF Len(ts) < 10
              THEN Panic(r, loc[r], io[r])
              ELSE Set(r, [VisitPlayback(loc[r], ts) EXCEPT !.remaining = @ \ {ts}], io[r])

\* VisitYesterday adding the plays of a new track instead of one
VisitYesterdayCountingPlays(l, id) ==
    IF id \notin l.playedBefore
    THEN [l EXCEPT !.yesterdayNewTracks = @ + l.yesterdayPlays]
    ELSE l

\* the locals after the loop body for the track id
VisitYesterday(l, id) ==
    IF id \notin l.playedBefore THEN [l EXCEPT !.yesterdayNewTracks = @ + 1] ELSE l

\* one iteration of: for id := range playedYesterday (any order)
RangeNew(r) ==
    /\ loc[r].pc = "rangeNew"
    /\ IF loc[r].ids = {}
       THEN Set(r, [loc[r] EXCEPT !.pc = "post"], io[r])
       ELSE \E id \in loc[r].ids :
              Set(r, [VisitYesterday(loc[r], id) EXCEPT !.ids = @ \ {id}], io[r])

\* Post without the check of err
PostUnchecked(r) ==
    /\ loc[r].pc = "post"
    /\ \E err \in Outcomes :
         LET text == ChatMsg(loc[r].tsPrefix, loc[r].yesterdayPlays,
                             Cardinality(loc[r].playedYesterday),
                             loc[r].yesterdayNewTracks)
             l == [loc[r] EXCEPT !.chatMsg = text]
             i == [io[r] EXCEPT !.calls = Append(@, Call("Post", text, err))]
         IN  Set(r, [l EXCEPT !.msg = "ok", !.code = StatusOK, !.err = Nil,
                               !.defers = <<>>, !.pc = "done"],
                    WriteOk(RunDefers(l.defers, i), "ok"))

\* chatMsg := fmt.Sprintf(...); err = s.gchat.Post(ctx, ...); the closure
\* returns and the handler answers
Post(r) ==
    /\ loc[r].pc = "post"
    /\ \E err \in Outcomes :
         LET text == ChatMsg(loc[r].tsPrefix, loc[r].yesterdayPlays,
                             Cardinality(loc[r].playedYesterday),
                             loc[r].yesterdayNewTracks)
             l == [loc[r] EXCEPT !.chatMsg = text]
             i == [io[r] EXCEPT !.calls = Append(@, Call("Post", text, err))]
         IN  IF err # Nil
             THEN Fail(r, l, i, "post message", StatusInternalServerError, err)
             ELSE Set(r, [l EXCEPT !.msg = "ok", !.code = StatusOK, !.err = Nil,
                                   !.defers = <<>>, !.pc = "done"],
                         WriteOk(RunDefers(l.defers, i), "ok"))

----------------------------------------------------------------------------
(* Specifications.                                                         *)

InitFor(rs, reqs, builds) ==
    /\ variant \in builds
    /\ server = ServerInit
    /\ request \in [rs -> reqs]
    /\ loc = [r \in rs |-> LocInit]
    /\ io = [r \in rs |-> IoInit]

\* one request
Init == InitFor({1}, Requests, [{1} -> Variants])

Next ==
    \/ \E r \in {1} : CheckMethod(r)
    \/ \E r \in {1} : ReadBody(r)
    \/ \E r \in {1} : UnmarshalBody(r)
    \/ \E r \in {1} : NewReader(r)
    \/ \E r \in {1} : ZstdNewReader(r)
    \/ \E r \in {1} : ReadObject(r)
    \/ \E r \in {1} : ProtoUnmarshal(r, Stores)
    \/ \E r \in {1} : TimeNow(r, Nows)
    \/ \E r \in {1} : RangePlaybacks(r)
    \/ \E r \in {1} : RangeNew(r)
    \/ \E r \in {1} : Post(r)

Spec == Init /\ [][Next]_vars

\* two requests handled concurrently, over few inputs
ConcReqs == {1, 2}

ConcRequests ==
    [method : Methods, body : {UserBody("alice"), UserBody("bob"), <<LB>>}, readErr : Outcomes]

ConcStores == StoresOver({TsMar01a, TsShort}, {"A"}, ConcMaxEvents)

ConcNows == {[year |-> 2024, month |-> 3, day |-> 2]}

\* one build serves both requests
ConcBuilds == { [r \in ConcReqs |-> v] : v \in Variants }

InitConc == InitFor(ConcReqs, ConcRequests, ConcBuilds)

NextConc ==
    \/ \E r \in ConcReqs : CheckMethod(r)
    \/ \E r \in ConcReqs : ReadBody(r)
    \/ \E r \in ConcReqs : UnmarshalBody(r)
    \/ \E r \in ConcReqs : NewReader(r)
    \/ \E r \in ConcReqs : ZstdNewReader(r)
    \/ \E r \in ConcReqs : ReadObject(r)
    \/ \E r \in ConcReqs : ProtoUnmarshal(r, ConcStores)
    \/ \E r \in ConcReqs : TimeNow(r, ConcNows)
    \/ \E r \in ConcReqs : RangePlaybacks(r)
    \/ \E r \in ConcReqs : RangeNew(r)
    \/ \E r \in ConcReqs : Post(r)

SpecConc == InitConc /\ [][NextConc]_vars

\* the same request given to both builds: request 1 is served by the
\* single-closure handler, request 2 by the three-closure handler
PairReqs == {1, 2}

PairBuilds == (1 :> "single") @@ (2 :> "staged")

PairStores == StoresOver({TsFeb28, TsMar01a, TsShort}, Tracks, PairMaxEvents)

PairNows == {[year |-> 2024, month |-> 3, day |-> 2], [year |-> 2024, month |-> 2, day |-> 29]}

InitPair ==
    /\ variant = PairBuilds
    /\ server = ServerInit
    /\ request \in { [r \in PairReqs |-> q] : q \in Requests }
    /\ loc = [r \in PairReqs |-> LocInit]
    /\ io = [r \in PairReqs |-> IoInit]

NextPair ==
    \/ \E r \in PairReqs : CheckMethod(r)
    \/ \E r \in PairReqs : ReadBody(r)
    \/ \E r \in PairReqs : UnmarshalBody(r)
    \/ \E r \in PairReqs : NewReader(r)
    \/ \E r \in PairReqs : ZstdNewReader(r)
    \/ \E r \in PairReqs : ReadObject(r)
    \/ \E r \in PairReqs : ProtoUnmarshal(r, PairStores)
    \/ \E r \in PairReqs : TimeNow(r, PairNows)
    \/ \E r \in PairReqs : RangePlaybacks(r)
    \/ \E r \in PairReqs : RangeNew(r)
    \/ \E r \in PairReqs : Post(r)

SpecPair == InitPair /\ [][NextPair]_vars

----------------------------------------------------------------------------
(* Vocabulary of the properties.                                           *)

\* the bodies that are valid JSON carrying a non-empty user string
GoodBodies ==
    { UserBody(x) : x \in Users } \cup
    { <<LB, S("USER"), COLON, S("bob"), RB>>,
      <<LB, S("user"), COLON, S("alice"), COMMA, S("user"), COLON, S("bob"), RB>> }

\* the stage of the pipeline a run stands in
Stage(r) ==
    CASE loc[r].pc \in {"method", "readBody", "unmarshalBody"} -> "Validating"
      [] loc[r].pc = "newReader" -> "Fetching"
      [] loc[r].pc \in {"zstdNewReader", "readAll", "protoUnmarshal"} -> "Decoding"
      [] loc[r].pc \in {"timeNow", "rangePlaybacks", "rangeNew"} -> "Aggregating"
      [] loc[r].pc = "post" -> "Notifying"
      [] loc[r].pc = "done" -> "Done"
      [] loc[r].pc = "failed" -> "Failed"
      [] loc[r].pc = "panicked" -> "Aborted"

\* the stage after each stage
NextStage(st) ==
    CASE st = "Validating" -> "Fetching"
      [] st = "Fetching" -> "Decoding"
      [] st = "Decoding" -> "Aggregating"
      [] st = "Aggregating" -> "Notifying"
      [] st = "Notifying" -> "Done"
      [] OTHER -> st

\* the response table: the label of each collaborator call that can fail
CallLabel(op) ==
    CASE op = "Body.Read" -> "read body"
      [] op = "NewReader" -> "create object reader"
      [] op = "zstd.NewReader" -> "create zstd reader"
      [] op = "ReadAll" -> "read object"
      [] op = "proto.Unmarshal" -> "unmarshal as proto"
      [] op = "Post" -> "post message"

\* request r has failed and its one response is (status, body)
FailedWith(r, status, body) ==
    /\ loc[r].pc = "failed"
    /\ io[r].responses = <<[status |-> status, body |-> body]>>

\* request r has called the notify sink
Posted(r) == \E k \in 1..Len(io[r].calls) : io[r].calls[k].op = "Post"

\* request r has asked the object store for an object
Opened(r) == \E k \in 1..Len(io[r].calls) : io[r].calls[k].op = "NewReader"

----------------------------------------------------------------------------
(* Properties.                                                             *)

\* C1: the notify sink is called only after the method check, the body
\* read, the JSON/user validation, the object-reader creation, the
\* decompressor creation, the object read and the parse have all succeeded
\* in the same request; a failure of one of the three decode steps answers
\* 500 with that step's own label and the notify sink is never called.
C1_NotifyOnlyAfterAllSteps ==
    \A r \in Reqs :
        LET cs == io[r].calls
        IN  /\ \A k \in 1..Len(cs) :
                 cs[k].op = "Post" =>
                    /\ request[r].method = "POST"
                    /\ request[r].body \in GoodBodies
                    /\ k = 6
                    /\ [j \in 1..5 |-> cs[j].op] =
                         <<"Body.Read", "NewReader", "zstd.NewReader", "ReadAll",
                           "proto.Unmarshal">>
                    /\ \A j \in 1..5 : cs[j].err = Nil
            /\ \A k \in 1..Len(cs) :
                 (cs[k].op \in {"zstd.NewReader", "ReadAll", "proto.Unmarshal"}
                    /\ cs[k].err # Nil) =>
                    /\ FailedWith(r, 500,
                          CASE cs[k].op = "zstd.NewReader" -> "create zstd reader"
                            [] cs[k].op = "ReadAll" -> "read object"
                            [] OTHER -> "unmarshal as proto")
                    /\ ~Posted(r)

\* C1 witness: a request has called the notify sink
C1_Witness == \E r \in Reqs : Posted(r) /\ loc[r].pc = "done"

\* C2: the stages of a request follow the order Validating, Fetching,
\* Decoding, Aggregating, Notifying, Done; from any stage the request may
\* go to Failed instead; a request that is Done or Failed does nothing more.
C2_StageOrder ==
    [][\A r \in Reqs :
          /\ Stage(r) \in {"Validating", "Fetching", "Decoding", "Aggregating",
                           "Notifying", "Done", "Failed"}
          /\ Stage(r)' \in {Stage(r), NextStage(Stage(r)), "Failed"}
          /\ Stage(r) \in {"Done", "Failed"} => (loc'[r] = loc[r] /\ io'[r] = io[r])]_vars

\* C3: a failing request is answered with the row of the response table of
\* the first step that failed, in the order method, body read, JSON/user,
\* object reader, decompressor, object read, parse, notify; no step after
\* the failing one is run and the request does not go on.
C3_FirstFailureRow ==
    \A r \in Reqs :
        LET cs == io[r].calls
            q == request[r]
            pc == loc[r].pc
        IN  /\ (q.method # "POST" /\ pc # "method") =>
                  FailedWith(r, 405, "invalid method") /\ cs = <<>>
            /\ (q.method = "POST" /\ q.readErr # Nil /\ pc \notin {"method", "readBody"}) =>
                  FailedWith(r, 400, "read body") /\ Len(cs) = 1
            /\ (q.method = "POST" /\ q.readErr = Nil /\ q.body \notin GoodBodies
                  /\ pc \notin {"method", "readBody", "unmarshalBody"}) =>
                  FailedWith(r, 400, "unmarshal body") /\ Len(cs) = 1
            /\ \A k \in 1..Len(cs) :
                 (cs[k].op # "Body.Read" /\ cs[k].err # Nil) =>
                    k = Len(cs) /\ FailedWith(r, 500, CallLabel(cs[k].op))
            /\ pc = "failed" =>
                 \/ q.method # "POST"
                 \/ q.body \notin GoodBodies
                 \/ \E k \in 1..Len(cs) : cs[k].err # Nil

\* C3 witness: a request failed at the decompressor, after the object reader
\* was created
C3_Witness ==
    \E r \in Reqs :
        /\ loc[r].pc = "failed"
        /\ Len(io[r].calls) = 3
        /\ io[r].calls[3].op = "zstd.NewReader"
        /\ io[r].calls[3].err # Nil

\* C4: a request is answered 200 "ok" exactly when the notify sink's send
\* was called for it and returned success; when the send was called and
\* returned an error the answer is 500 "post message".
C4_OkIffPosted ==
    \A r \in Reqs :
        LET cs == io[r].calls
            rs == io[r].responses
        IN  /\ (\E k \in 1..Len(rs) : rs[k].status = 200 \/ rs[k].body = "ok")
                  <=> (\E k \in 1..Len(cs) : cs[k].op = "Post" /\ cs[k].err = Nil)
            /\ \A k \in 1..Len(rs) : rs[k].status = 200 <=> rs[k].body = "ok"
            /\ (\E k \in 1..Len(cs) : cs[k].op = "Post" /\ cs[k].err # Nil)
                  => rs = <<[status |-> 500, body |-> "post message"]>>

\* C4 witness: the send returned an error and the request was answered
C4_Witness ==
    \E r \in Reqs :
        /\ \E k \in 1..Len(io[r].calls) :
              io[r].calls[k].op = "Post" /\ io[r].calls[k].err # Nil
        /\ io[r].responses # <<>>

\* C5: a request whose method is not POST is answered 405 "invalid
\* method" whatever its body (well-formed, malformed, empty user,
\* unreadable); its body is not read and neither the object store nor the
\* notify sink is called.
C5_NonPostRejected ==
    \A r \in Reqs :
        request[r].method # "POST" =>
            /\ io[r].calls = <<>>
            /\ loc[r].pc \in {"method", "failed"}
            /\ loc[r].pc = "failed" => FailedWith(r, 405, "invalid method")

\* C5 witness: a GET whose body would pass validation has been answered
C5_Witness ==
    \E r \in Reqs :
        /\ request[r].method = "GET"
        /\ request[r].body = UserBody("alice")
        /\ request[r].readErr = Nil
        /\ loc[r].pc = "failed"

\* the bodies that are not JSON
MalformedBodies == { <<>>, <<LB>>, <<LB, S("user"), S("alice"), RB>> }

\* the JSON bodies without a user field, or with the empty string as user
NoUserBodies == { <<LB, RB>>, <<LB, S("other"), COLON, S("alice"), RB>>, UserBody("") }

\* C6: a POST whose readable body is malformed JSON, or valid JSON whose
\* user field is missing or the empty string, is answered 400 "unmarshal
\* body", and neither the object store nor the notify sink is called.
C6_BadBodyRejected ==
    \A r \in Reqs :
        (/\ request[r].method = "POST"
         /\ request[r].readErr = Nil
         /\ request[r].body \in MalformedBodies \cup NoUserBodies) =>
            /\ ~Opened(r)
            /\ ~Posted(r)
            /\ loc[r].pc \in {"method", "readBody", "unmarshalBody", "failed"}
            /\ loc[r].pc = "failed" => FailedWith(r, 400, "unmarshal body")

\* C6 witness: a POST of {"user": ""} has been answered
C6_Witness ==
    \E r \in Reqs :
        /\ request[r].method = "POST"
        /\ request[r].readErr = Nil
        /\ request[r].body = UserBody("")
        /\ loc[r].pc = "failed"

\* C7: a POST whose well-formed body carries the non-empty user x passes
\* validation, and the only object key the request asks the object store
\* for is x followed by ".pb.zstd".
C7_KeyIsUserPbZstd ==
    \A r \in Reqs : \A x \in Users :
        (/\ request[r].method = "POST"
         /\ request[r].readErr = Nil
         /\ request[r].body = UserBody(x)) =>
            /\ loc[r].pc \notin {"method", "readBody", "unmarshalBody"} =>
                  /\ loc[r].user = x
                  /\ loc[r].pc = "failed" => Opened(r)
            /\ \A k \in 1..Len(io[r].calls) :
                  io[r].calls[k].op = "NewReader" =>
                     /\ io[r].calls[k].arg = x \o ".pb.zstd"
                     /\ k = 2

\* C7 witness: the object alice.pb.zstd was asked for
C7_Witness ==
    \E r \in Reqs :
        /\ request[r].body = UserBody("alice")
        /\ \E k \in 1..Len(io[r].calls) :
              io[r].calls[k] = Call("NewReader", "alice.pb.zstd", Nil)

\* the date 24 hours before each instant of Nows
ExpectedCutoff(now) ==
    CASE now = [year |-> 2024, month |-> 3, day |-> 2]
           -> <<"2","0","2","4","-","0","3","-","0","1">>
      [] now = [year |-> 2024, month |-> 3, day |-> 1]
           -> <<"2","0","2","4","-","0","2","-","2","9">>
      [] now = [year |-> 2024, month |-> 2, day |-> 29]
           -> <<"2","0","2","4","-","0","2","-","2","8">>
      [] now = [year |-> 2024, month |-> 1, day |-> 1]
           -> <<"2","0","2","3","-","1","2","-","3","1">>

DigitVal(c) == CHOOSE n \in 0..9 : Digits[n + 1] = c

\* the day YYYY-MM-DD as the number YYYYMMDD, which orders days by time
DateNum(p) ==
    DigitVal(p[1]) * 10000000 + DigitVal(p[2]) * 1000000 + DigitVal(p[3]) * 100000
        + DigitVal(p[4]) * 10000 + DigitVal(p[6]) * 1000 + DigitVal(p[7]) * 100
        + DigitVal(p[9]) * 10 + DigitVal(p[10])

\* C8: with cutoff = date(now - 24h), the play count is the number of events
\* whose ten-character date prefix equals cutoff (per event), the distinct
\* track count is the number of distinct track ids among those events, and
\* the new track count is the number of those ids that occur in no event
\* dated before cutoff; events dated after cutoff enter none of the counts.
C8_AggregateCounts ==
    \A r \in Reqs :
        LET l == loc[r]
            d == l.data
            cutoff == ExpectedCutoff(l.now)
            onCutoff == { ts \in DOMAIN d : SubSeq(ts, 1, 10) = cutoff }
            earlier == { ts \in DOMAIN d : DateNum(SubSeq(ts, 1, 10)) < DateNum(cutoff) }
            distinct == { d[ts] : ts \in onCutoff }
            seenBefore == { d[ts] : ts \in earlier }
        IN  /\ (l.pc \in {"rangeNew", "post"} \/ Posted(r)) =>
                  /\ l.tsPrefix = cutoff
                  /\ l.yesterdayPlays = Cardinality(onCutoff)
                  /\ l.playedYesterday = distinct
            /\ (l.pc = "post" \/ Posted(r)) =>
                  l.yesterdayNewTracks = Cardinality(distinct \ seenBefore)

\* C8 witness: the store {2024-03-01T10: A, 2024-02-28T10: A, 2024-03-01T11: B}
\* summarised at 2024-03-02 gives 2 plays, 2 tracks, 1 new
C8_Witness ==
    \E r \in Reqs :
        /\ loc[r].pc = "post"
        /\ loc[r].data = (TsMar01a :> "A") @@ (TsFeb28 :> "A") @@ (TsMar01b :> "B")
        /\ loc[r].now = [year |-> 2024, month |-> 3, day |-> 2]
        /\ loc[r].yesterdayPlays = 2
        /\ Cardinality(loc[r].playedYesterday) = 2
        /\ loc[r].yesterdayNewTracks = 1

\* C9: when the decoded store has a timestamp key shorter than ten
\* characters, the request ends Failed with status 500 and no message
\* reaches the notify sink.
C9_ShortKeyFails ==
    \A r \in Reqs :
        ((\E ts \in DOMAIN loc[r].data : Len(ts) < 10) /\ Stage(r) # "Aggregating") =>
            /\ Stage(r) = "Failed"
            /\ Len(io[r].responses) = 1
            /\ io[r].responses[1].status = 500
            /\ ~Posted(r)

\* the step at which a failed request failed
FailStep(r) ==
    IF request[r].method # "POST" THEN "method"
    ELSE IF \E k \in 1..Len(io[r].calls) : io[r].calls[k].err # Nil
    THEN io[r].calls[CHOOSE k \in 1..Len(io[r].calls) : io[r].calls[k].err # Nil].op
    ELSE "json"

StageLabels ==
    { "invalid method", "read body", "unmarshal body", "create object reader",
      "create zstd reader", "read object", "unmarshal as proto", "post message" }

\* C10: the body of the response of a failed request is one of the fixed
\* stage labels, and two requests that fail at the same step receive the
\* same status and body whatever the underlying errors were.
C10_ResponseHidesError ==
    /\ \A r \in Reqs :
          loc[r].pc = "failed" =>
             /\ Len(io[r].responses) = 1
             /\ io[r].responses[1].body \in StageLabels
    /\ \A r1, r2 \in Reqs :
          (loc[r1].pc = "failed" /\ loc[r2].pc = "failed" /\ FailStep(r1) = FailStep(r2)) =>
             io[r1].responses = io[r2].responses

\* C10 witness: two requests failed at the same step with different errors
C10_Witness ==
    \E r1, r2 \in Reqs :
        /\ loc[r1].pc = "failed"
        /\ loc[r2].pc = "failed"
        /\ FailStep(r1) = "NewReader"
        /\ FailStep(r2) = "NewReader"
        /\ loc[r1].err = "e1"
        /\ loc[r2].err = "e2"

\* the date 24 hours before each instant of Nows, as text
ExpectedCutoffText(now) ==
    CASE now = [year |-> 2024, month |-> 3, day |-> 2] -> "2024-03-01"
      [] now = [year |-> 2024, month |-> 3, day |-> 1] -> "2024-02-29"
      [] now = [year |-> 2024, month |-> 2, day |-> 29] -> "2024-02-28"
      [] now = [year |-> 2024, month |-> 1, day |-> 1] -> "2023-12-31"

\* the decimal numeral of a small count
Numeral(n) ==
    CASE n = 0 -> "0" [] n = 1 -> "1" [] n = 2 -> "2" [] n = 3 -> "3" [] n = 4 -> "4"
      [] n = 5 -> "5" [] n = 6 -> "6" [] n = 7 -> "7" [] n = 8 -> "8" [] n = 9 -> "9"

\* the events of request r's decoded store dated on the cutoff of its instant
OnCutoff(r) ==
    { ts \in DOMAIN loc[r].data : SubSeq(ts, 1, 10) = ExpectedCutoff(loc[r].now) }

\* the track ids of the events dated before the cutoff
SeenBefore(r) ==
    { loc[r].data[ts] : ts \in
        { t \in DOMAIN loc[r].data :
            DateNum(SubSeq(t, 1, 10)) < DateNum(ExpectedCutoff(loc[r].now)) } }

\* the track ids of the events dated on the cutoff
SeenYesterday(r) == { loc[r].data[ts] : ts \in OnCutoff(r) }

\* the summary line for request r, from its decoded store and its instant
ExpectedText(r) ==
    ExpectedCutoffText(loc[r].now) \o " | " \o Numeral(Cardinality(OnCutoff(r)))
        \o " plays | " \o Numeral(Cardinality(SeenYesterday(r))) \o " tracks ("
        \o Numeral(Cardinality(SeenYesterday(r) \ SeenBefore(r))) \o " new)"

\* C11: on every request that reaches Notifying, the text given to the
\* notify sink is "<cutoff> | <playCount> plays | <distinctTrackCount> tracks
\* (<newTrackCount> new)", built from the four values of the aggregation of
\* the store decoded in the same request, in that order.
C11_NotifyText ==
    \A r \in Reqs :
        \A k \in 1..Len(io[r].calls) :
            io[r].calls[k].op = "Post" => io[r].calls[k].arg = ExpectedText(r)

\* C11 witness: the summary of the store {2024-03-01T10: A, 2024-02-28T10: A,
\* 2024-03-01T11: B} at 2024-03-02 was sent
C11_Witness ==
    \E r \in Reqs :
        /\ loc[r].data = (TsMar01a :> "A") @@ (TsFeb28 :> "A") @@ (TsMar01b :> "B")
        /\ \E k \in 1..Len(io[r].calls) :
              /\ io[r].calls[k].op = "Post"
              /\ io[r].calls[k].arg = "2024-03-01 | 2 plays | 2 tracks (1 new)"

\* the number of calls of op that request r has made
CallCount(r, op) == Cardinality({ k \in 1..Len(io[r].calls) : io[r].calls[k].op = op })

\* C12: no retries: within one request the object store's open and the
\* notify sink's send are each called at most once, whether the call
\* succeeds or fails.
C12_NoRetry ==
    \A r \in Reqs :
        /\ CallCount(r, "NewReader") <= 1
        /\ CallCount(r, "Post") <= 1

\* C12 witness: a request whose open failed has ended
C12_Witness ==
    \E r \in Reqs :
        /\ loc[r].pc = "failed"
        /\ \E k \in 1..Len(io[r].calls) :
              io[r].calls[k].op = "NewReader" /\ io[r].calls[k].err # Nil

\* C13: 0 <= newTrackCount <= distinctTrackCount, in every state reached
\* while the new-track count is accumulated and in the final result.
C13_NewAtMostDistinct ==
    \A r \in Reqs :
        /\ 0 <= loc[r].yesterdayNewTracks
        /\ loc[r].yesterdayNewTracks <= Cardinality(loc[r].playedYesterday)

\* C13 witness: the count is under way, one new track counted of two played
C13_Witness ==
    \E r \in Reqs :
        /\ loc[r].pc = "rangeNew"
        /\ loc[r].ids # {}
        /\ loc[r].yesterdayNewTracks = 1
        /\ Cardinality(loc[r].playedYesterday) = 2

\* the events of request r's store that the first loop has visited
Visited(r) == DOMAIN loc[r].data \ loc[r].remaining

\* the locals of the aggregation are what the set of visited events and the
\* set of visited ids make them, whatever the order of the visits
VisitedDetermined(r) ==
    LET l == loc[r]
        d == l.data
        cutoff == ExpectedCutoff(l.now)
        vis == IF l.pc = "rangePlaybacks" THEN Visited(r) ELSE DOMAIN d
        onCutoff == { ts \in vis : SubSeq(ts, 1, 10) = cutoff }
        earlier == { ts \in vis : DateNum(SubSeq(ts, 1, 10)) < DateNum(cutoff) }
        idsDone == IF l.pc = "rangeNew" THEN l.playedYesterday \ l.ids
                   ELSE IF l.pc = "rangePlaybacks" THEN {}
                   ELSE l.playedYesterday
    IN  (l.pc \in {"rangePlaybacks", "rangeNew", "post"} \/ Posted(r)) =>
           /\ l.tsPrefix = cutoff
           /\ l.playedBefore = { d[ts] : ts \in earlier }
           /\ l.playedYesterday = { d[ts] : ts \in onCutoff }
           /\ l.yesterdayPlays = Cardinality(onCutoff)
           /\ l.yesterdayNewTracks = Cardinality(idsDone \ l.playedBefore)

\* C14: the aggregation's result is the same for every order in which the
\* events are visited, and the same when computed again for the same store
\* and instant: after every step of either loop the locals are determined by
\* the store, the instant and the set (not the order) of what was visited;
\* the store itself is not changed by the aggregation.
C14_OrderIndependent ==
    [][\A r \in Reqs :
          /\ VisitedDetermined(r)'
          /\ Stage(r) \in {"Aggregating", "Notifying"} => loc'[r].data = loc[r].data
          /\ Stage(r) = "Aggregating" => loc'[r].now \in {loc[r].now} \cup
                (IF loc[r].pc = "timeNow" THEN Nows ELSE {})]_vars

\* C14 witness: two events on the cutoff and one before it, the one before
\* visited last of the three
C14_Witness ==
    \E r \in Reqs :
        /\ loc[r].pc = "rangePlaybacks"
        /\ loc[r].data = (TsMar01a :> "A") @@ (TsFeb28 :> "A") @@ (TsMar01b :> "B")
        /\ loc[r].now = [year |-> 2024, month |-> 3, day |-> 2]
        /\ loc[r].remaining = {TsFeb28}
        /\ loc[r].yesterdayPlays = 2

\* request r has had a nil error from a call of op
Succeeded(r, op) ==
    \E k \in 1..Len(io[r].calls) : io[r].calls[k].op = op /\ io[r].calls[k].err = Nil

\* C15: in every terminal state of a request (Done, Failed, or the abnormal
\* exit during aggregation) every object reader and every decompressor the
\* request opened has been closed; a reader or decompressor that was never
\* opened is never closed.
C15_ReadersClosed ==
    \A r \in Reqs :
        /\ Stage(r) \in {"Done", "Failed", "Aborted"} =>
              /\ Succeeded(r, "NewReader") => io[r].orState = "closed"
              /\ Succeeded(r, "zstd.NewReader") => io[r].zrState = "closed"
        /\ ~Succeeded(r, "NewReader") => io[r].orState = "none"
        /\ ~Succeeded(r, "zstd.NewReader") => io[r].zrState = "none"

\* C15 witness: the single-closure handler has left by the abnormal exit
\* with both readers opened
C15_Witness ==
    \E r \in Reqs :
        /\ variant[r] = "single"
        /\ Stage(r) = "Aborted"
        /\ Succeeded(r, "NewReader")
        /\ Succeeded(r, "zstd.NewReader")

\* what a request is given: its method and body, the store it decoded, the
\* instant it read, and the results of its own collaborator calls
Own(r) ==
    <<request[r], loc[r].data, loc[r].now,
      [k \in 1..Len(io[r].calls) |-> <<io[r].calls[k].op, io[r].calls[k].err>>]>>

\* what a request does: how it ends, its responses, and its calls with
\* their arguments (the key asked for, the text sent)
Outcome(r) == <<Stage(r), io[r].responses, io[r].calls>>

Ended(r) == Stage(r) \in {"Done", "Failed", "Aborted"}

\* two ended requests that were given the same have done the same
OwnDetermines ==
    \A r1, r2 \in Reqs :
        (Ended(r1) /\ Ended(r2) /\ Own(r1) = Own(r2)) => Outcome(r1) = Outcome(r2)

\* C16: for any interleaving of concurrent requests, each request's outcome
\* depends only on its own method and body, the object it read and the
\* results of its own collaborator calls; the handler never writes a field
\* of the shared Server, and a step of one request changes nothing of
\* another request.
C16_RequestsIndependent ==
    [][/\ server' = server
       /\ \A r \in Reqs :
             (loc'[r] # loc[r] \/ io'[r] # io[r]) =>
                \A r2 \in Reqs \ {r} : loc'[r2] = loc[r2] /\ io'[r2] = io[r2]
       /\ OwnDetermines']_vars

\* C16 witness: of two concurrent requests for the same user one has failed
\* and the other has been answered 200
C16_Witness ==
    \E r1, r2 \in Reqs :
        /\ r1 # r2
        /\ request[r1] = request[r2]
        /\ Stage(r1) = "Failed"
        /\ Stage(r2) = "Done"

\* C17: when the object decodes to an empty playback log the aggregation
\* gives 0 plays, 0 tracks, 0 new for any instant, and the request still
\* sends exactly one notification carrying these zero counts and is
\* answered 200 "ok" when the send succeeds.
C17_EmptyLogStillNotifies ==
    \A r \in Reqs :
        (Succeeded(r, "proto.Unmarshal") /\ DOMAIN loc[r].data = {}) =>
            /\ Stage(r) # "Aborted"
            /\ Stage(r) = "Failed" => Posted(r)
            /\ (loc[r].pc = "post" \/ Posted(r)) =>
                  /\ loc[r].yesterdayPlays = 0
                  /\ loc[r].playedYesterday = {}
                  /\ loc[r].yesterdayNewTracks = 0
            /\ \A k \in 1..Len(io[r].calls) :
                  io[r].calls[k].op = "Post" =>
                     io[r].calls[k].arg =
                        ExpectedCutoffText(loc[r].now) \o " | 0 plays | 0 tracks (0 new)"
            /\ Ended(r) => CallCount(r, "Post") = 1
            /\ Succeeded(r, "Post") =>
                  io[r].responses = <<[status |-> 200, body |-> "ok"]>>

\* C17 witness: an empty store was summarised at 2024-03-02 and answered
C17_Witness ==
    \E r \in Reqs :
        /\ Succeeded(r, "proto.Unmarshal")
        /\ DOMAIN loc[r].data = {}
        /\ Stage(r) = "Done"
        /\ io[r].calls[6] = Call("Post", "2024-03-01 | 0 plays | 0 tracks (0 new)", Nil)

\* C18: every request whose collaborator calls all return reaches Done or
\* Failed and writes exactly one response, an error status with its label
\* or 200 "ok": never two, and none only while it is still running.
C18_ExactlyOneResponse ==
    \A r \in Reqs :
        /\ Len(io[r].responses) <= 1
        /\ loc[r].pc \in {"done", "failed", "panicked"} =>
              /\ Stage(r) \in {"Done", "Failed"}
              /\ Len(io[r].responses) = 1

\* C19: the two handler variants are observationally equivalent: given the
\* same method, body, stored object, instant and collaborator results, the
\* single-closure and the three-closure handler give the same response
\* status and body, ask for the same object key and make the same call of
\* the notify sink (the same text, or none).
C19_VariantsEquivalent ==
    \A r1, r2 \in Reqs :
        (/\ variant[r1] = "single"
         /\ variant[r2] = "staged"
         /\ Ended(r1)
         /\ Ended(r2)
         /\ Own(r1) = Own(r2)) =>
            /\ io[r1].responses = io[r2].responses
            /\ SelectSeq(io[r1].calls, LAMBDA c : c.op = "NewReader")
                 = SelectSeq(io[r2].calls, LAMBDA c : c.op = "NewReader")
            /\ SelectSeq(io[r1].calls, LAMBDA c : c.op = "Post")
                 = SelectSeq(io[r2].calls, LAMBDA c : c.op = "Post")
            /\ Stage(r1) = Stage(r2)

\* C19 witness: both variants were given the same and have sent the summary
C19_Witness ==
    \E r1, r2 \in Reqs :
        /\ variant[r1] = "single"
        /\ variant[r2] = "staged"
        /\ Own(r1) = Own(r2)
        /\ Stage(r1) = "Done"
        /\ Stage(r2) = "Done"
        /\ DOMAIN loc[r1].data # {}

====
